---- MODULE Spec2Model ----
(***************************************************************************)
(* Model of the termpose translators (rust/src/translators.rs): the        *)
(* Wooder/Dewooder strategies, the primitive codecs, the sequence, pair    *)
(* and map combinators, ensure_tag and the FieldScanning cursor.           *)
(*                                                                         *)
(* Text (String / &str) is a sequence of one-character strings, so that    *)
(* formatting and parsing of integers are real conversions.                *)
(* A Wood is a record: leaf = TRUE is Leafv (txt is Leaf.v), leaf = FALSE  *)
(* is Branchv (kids is Branch.v); line and column are the node's position. *)
(***************************************************************************)
EXTENDS Integers, Sequences, FiniteSets, TLC

VARIABLES
    v,        \* FieldScanning.v: the wood the cursor scans
    li,       \* FieldScanning.li: the slice of woods the cursor walks
    eye,      \* FieldScanning.eye: 0-based index into li
    hist,     \* the seek calls made so far, each with what it examined and returned
    strat,    \* the strategy (Wooder/Dewooder) of the current codec call
    val,      \* the typed value handed to woodify
    wood,     \* the wood handed to dewoodify / produced by woodify
    output,   \* the caller's output vector of dewoodify_seq_into / dewoodify_map
    op,       \* the operation applied last
    res       \* the result of the operation applied last

vars == <<v, li, eye, hist, strat, val, wood, output, op, res>>

----------------------------------------------------------------------------
(* Bounds of the model *)

\* most children of the wood a FieldScanning is built over
MaxKids == 3
\* most seek calls made on one FieldScanning
MaxSeeks == 3
\* most elements of a Vec handed to woodify
MaxLen == 2
\* most children of a branch handed to a decoder
MaxArity == 3

----------------------------------------------------------------------------
(* Wood: the term tree, declared in the crate root *)

\* Wood::leaf / From<&str>: a leaf built in memory carries position (-1, -1)
Leaf(t) == [leaf |-> TRUE, txt |-> t, kids |-> <<>>, line |-> -1, column |-> -1]

\* Wood::branch / From<Vec<Wood>> / branch!: a branch built in memory
Branch(ks) == [leaf |-> FALSE, txt |-> <<>>, kids |-> ks, line |-> -1, column |-> -1]

\* Wood::line_and_col
LineAndCol(w) == <<w.line, w.column>>

RECURSIVE InitialStr(_)
\* Wood::initial_str: the text of a leaf; of a branch, the initial_str of its
\* first element, and the empty text when it bottoms out at an empty branch
InitialStr(w) ==
    IF w.leaf THEN w.txt
    ELSE IF Len(w.kids) = 0 THEN <<>>
    ELSE InitialStr(w.kids[1])

\* Wood::contents: the elements of a branch; a leaf yields itself alone
Contents(w) == IF w.leaf THEN <<w>> ELSE w.kids

\* Wood::tail: the elements of a branch after the first; a leaf has none.
\* (The cursor is never built over an empty branch here, and no key sought
\* is empty, so the tail of an empty branch is never asked for.)
WoodTail(w) ==
    IF w.leaf \/ Len(w.kids) = 0 THEN <<>>
    ELSE SubSeq(w.kids, 2, Len(w.kids))

RECURSIVE Locate(_, _, _)
\* The parser's positions: every node of a parsed wood has its own position.
\* The node at depth d reached through children i, j, .. is given line d + 1
\* and a column spelling the path, so that no two nodes share a position.
Locate(w, l, c) ==
    [leaf |-> w.leaf, txt |-> w.txt,
     kids |-> [i \in 1..Len(w.kids) |-> Locate(w.kids[i], l + 1, 10 * c + i)],
     line |-> l, column |-> c]

\* a wood as the parser hands it over: located from its root at (1, 1)
Parsed(w) == Locate(w, 1, 1)

\* all sequences over S of length at most n
SeqsUpTo(S, n) == UNION {[1..k -> S] : k \in 0..n}

----------------------------------------------------------------------------
(* DewoodifyError and results *)

\* the cause field: None, or the boxed error of the failed parse
NoCause == "None"

\* DewoodifyError::new_with_cause(source, msg, cause); the message is kept as
\* its format string and the texts formatted into it
NewWithCause(source, msg, args, cause) ==
    [line |-> LineAndCol(source)[1], column |-> LineAndCol(source)[2],
     msg |-> msg, args |-> args, cause |-> cause]

\* DewoodifyError::new(source, msg): no cause
NewError(source, msg, args) == NewWithCause(source, msg, args, NoCause)

NoErr == [line |-> 0, column |-> 0, msg |-> "", args |-> <<>>, cause |-> NoCause]
NoVal == <<>>

\* Result::Ok(x); calls lists the positions of the woods the leaf decoders
\* (bool, integer, String) were applied to, in call order
Ok(x, calls) == [ok |-> TRUE, val |-> x, err |-> NoErr, calls |-> calls]
\* Result::Err(e)
Err(e, calls) == [ok |-> FALSE, val |-> NoVal, err |-> e, calls |-> calls]

----------------------------------------------------------------------------
(* Primitive codecs: do_basic_stringifying_woodable_for!,                  *)
(* do_basic_destringifying_dewoodable_for!, bool, String                   *)

\* i32::MAX, the width of the integers of lines 153-154
MaxI32 == 2147483647
MinI32 == -MaxI32 - 1

DigitChar(d) == <<"0", "1", "2", "3", "4", "5", "6", "7", "8", "9">>[d + 1]

\* the value of a decimal digit character, -1 for any other character
DigitValue(c) ==
    CASE c = "0" -> 0 [] c = "1" -> 1 [] c = "2" -> 2 [] c = "3" -> 3 [] c = "4" -> 4
      [] c = "5" -> 5 [] c = "6" -> 6 [] c = "7" -> 7 [] c = "8" -> 8 [] c = "9" -> 9
      [] OTHER -> -1

RECURSIVE DigitsOfNonPos(_)
\* the decimal digits of -n for n <= 0, most significant first, none for 0;
\* computed on the non-positive side so that i32::MIN does not overflow
DigitsOfNonPos(n) ==
    IF n = 0 THEN <<>>
    ELSE LET d == (10 - (n % 10)) % 10
         IN  DigitsOfNonPos((n + d) \div 10) \o <<DigitChar(d)>>

\* ToStringInt printing the magnitude only
ToStringIntNoSign(n) ==
    IF n = 0 THEN <<"0">>
    ELSE IF n < 0 THEN DigitsOfNonPos(n)
    ELSE DigitsOfNonPos(-n)

\* i32::to_string (line 58): a minus sign for a negative number, then the digits
ToStringInt(n) ==
    IF n = 0 THEN <<"0">>
    ELSE IF n < 0 THEN <<"-">> \o DigitsOfNonPos(n)
    ELSE DigitsOfNonPos(-n)

RECURSIVE ParsePos(_, _, _)
\* i32::from_str on the digits of a number without a minus sign: checked
\* multiply by ten and add, failing on a non-digit and on overflow
ParsePos(t, i, acc) ==
    IF i > Len(t) THEN [ok |-> TRUE, val |-> acc]
    ELSE LET d == DigitValue(t[i]) IN
         IF d < 0 THEN [ok |-> FALSE, val |-> 0]
         ELSE IF acc > (MaxI32 - d) \div 10 THEN [ok |-> FALSE, val |-> 0]
         ELSE ParsePos(t, i + 1, acc * 10 + d)

RECURSIVE ParseNeg(_, _, _)
\* i32::from_str on the digits after a minus sign: checked multiply by ten and
\* subtract, failing on a non-digit and on underflow
ParseNeg(t, i, acc) ==
    IF i > Len(t) THEN [ok |-> TRUE, val |-> acc]
    ELSE LET d == DigitValue(t[i]) IN
         IF d < 0 THEN [ok |-> FALSE, val |-> 0]
         ELSE IF acc < (MinI32 + d + 9) \div 10 THEN [ok |-> FALSE, val |-> 0]
         ELSE ParseNeg(t, i + 1, acc * 10 - d)

\* i32::from_str (line 66): an optional sign, then at least one digit
FromStrInt(t) ==
    IF Len(t) = 0 THEN [ok |-> FALSE, val |-> 0]
    ELSE IF t[1] = "-" THEN
         (IF Len(t) = 1 THEN [ok |-> FALSE, val |-> 0] ELSE ParseNeg(t, 2, 0))
    ELSE IF t[1] = "+" THEN
         (IF Len(t) = 1 THEN [ok |-> FALSE, val |-> 0] ELSE ParsePos(t, 2, 0))
    ELSE ParsePos(t, 1, 0)

\* Woodable for i32 (lines 57-59)
WoodifyInt(n) == Leaf(ToStringInt(n))

\* Dewoodable for i32 (lines 64-70): parse the initial_str, wrapping the parse
\* error as the cause
DewoodifyInt(w) ==
    LET r == FromStrInt(InitialStr(w)) IN
    IF r.ok THEN Ok(r.val, <<LineAndCol(w)>>)
    ELSE Err(NewWithCause(w, "couldn't parse {}", <<>>, "ParseIntError"), <<LineAndCol(w)>>)

T_true  == <<"t", "r", "u", "e">>
T_false == <<"f", "a", "l", "s", "e">>
T_top   == <<"⊤">>
T_bot   == <<"⟂">>
T_yes   == <<"y", "e", "s">>
T_no    == <<"n", "o">>

\* bool::to_string
ToStringBool(b) == IF b THEN T_true ELSE T_false

\* Woodable for bool (line 166)
WoodifyBool(b) == Leaf(ToStringBool(b))

\* DewoodifyBool matching the initial_str without regard to case
DewoodifyBoolAnyCase(w) ==
    LET t == InitialStr(w) IN
    IF t \in {T_true, T_top, T_yes, <<"T", "r", "u", "e">>} THEN Ok(TRUE, <<LineAndCol(w)>>)
    ELSE IF t \in {T_false, T_bot, T_no} THEN Ok(FALSE, <<LineAndCol(w)>>)
    ELSE Err(NewWithCause(w, "expected a bool here", <<>>, NoCause), <<LineAndCol(w)>>)

\* Dewoodable for bool (lines 167-179)
DewoodifyBool(w) ==
    LET t == InitialStr(w) IN
    IF t = T_true \/ t = T_top \/ t = T_yes THEN Ok(TRUE, <<LineAndCol(w)>>)
    ELSE IF t = T_false \/ t = T_bot \/ t = T_no THEN Ok(FALSE, <<LineAndCol(w)>>)
    ELSE Err(NewWithCause(w, "expected a bool here", <<>>, NoCause), <<LineAndCol(w)>>)

\* Woodable for String (lines 185-189)
WoodifyString(t) == Leaf(t)

\* Dewoodable for String (lines 190-197)
DewoodifyString(w) ==
    IF w.leaf THEN Ok(w.txt, <<LineAndCol(w)>>)
    ELSE Err(NewWithCause(w, "sought string, found branch", <<>>, NoCause), <<LineAndCol(w)>>)

----------------------------------------------------------------------------
(* Types and strategies *)

\* the value types: i32, bool, String, Vec<e>, (k, v), HashMap<k, v>
TInt == [t |-> "i32"]
TBool == [t |-> "bool"]
TString == [t |-> "String"]
TVec(e) == [t |-> "Vec", e |-> e]
TPair(k, x) == [t |-> "Pair", k |-> k, x |-> x]
THashMap(k, x) == [t |-> "HashMap", k |-> k, x |-> x]

\* DefaultBiwooder, DefaultWooder, DefaultDewooder (lines 103-120): forward to
\* the Woodable / Dewoodable implementation of the type T inferred at the call
Default(T) == [k |-> "Default", T |-> T]
\* SequenceTran(SubTran) (line 295)
SequenceTran(sub) == [k |-> "SequenceTran", sub |-> sub]
\* TaggedSequenceTran(tag, SubTran) (line 312)
TaggedSequenceTran(tag, sub) == [k |-> "TaggedSequenceTran", tag |-> tag, sub |-> sub]
\* PairBi(KeyTran, ValTran) (line 376)
PairBi(kt, vt) == [k |-> "PairBi", kt |-> kt, vt |-> vt]
\* HashMapBi(KeyTran, ValTran) (line 439)
HashMapBi(kt, vt) == [k |-> "HashMapBi", kt |-> kt, vt |-> vt]
\* TaggedHashMapBi(tag, KeyTran, ValTran) (line 466)
TaggedHashMapBi(tag, kt, vt) == [k |-> "TaggedHashMapBi", tag |-> tag, kt |-> kt, vt |-> vt]

----------------------------------------------------------------------------
(* Encoding.  A HashMap iterates in an order of its own, so woodify of a    *)
(* value is the set of the woods it can produce, one per iteration order.  *)

RECURSIVE Perms(_)
\* the orders in which a HashMap with key set S can iterate
Perms(S) ==
    IF S = {} THEN {<<>>}
    ELSE UNION {{<<x>> \o q : q \in Perms(S \ {x})} : x \in S}

RECURSIVE WoodifySet(_, _)
RECURSIVE WoodifySeqInto(_, _, _)
RECURSIVE WoodifyMapOrdered(_, _, _, _, _)

\* woodify_seq_into (lines 254-258): push the wood of every element, in order
WoodifySeqInto(inner, xs, out) ==
    IF Len(xs) = 0 THEN {out}
    ELSE UNION {WoodifySeqInto(inner, SubSeq(xs, 2, Len(xs)), Append(out, w)) :
                    w \in WoodifySet(inner, xs[1])}

\* woodify_map (lines 399-401) over the iteration order ord: push one
\* two-element branch, key first, per entry
WoodifyMapOrdered(ktr, vtr, m, ord, out) ==
    IF Len(ord) = 0 THEN {out}
    ELSE UNION {WoodifyMapOrdered(ktr, vtr, m, SubSeq(ord, 2, Len(ord)),
                                  Append(out, Branch(<<kw, vw>>))) :
                    kw \in WoodifySet(ktr, ord[1]), vw \in WoodifySet(vtr, m[ord[1]])}

\* woodify_map (lines 391-402) over every order self.iter() may take
WoodifyMap(ktr, vtr, m, out) ==
    UNION {WoodifyMapOrdered(ktr, vtr, m, ord, out) : ord \in Perms(DOMAIN m)}

\* the Woodable implementations (lines 147-166, 185-189, 279-285, 416-425)
WoodifyDefault(T, x) ==
    CASE T.t = "i32" -> {WoodifyInt(x)}
      [] T.t = "bool" -> {WoodifyBool(x)}
      [] T.t = "String" -> {WoodifyString(x)}
      [] T.t = "Vec" -> {Branch(ks) : ks \in WoodifySeqInto(Default(T.e), x, <<>>)}
      [] T.t = "HashMap" ->
            {Branch(ks) : ks \in WoodifyMap(Default(T.k), Default(T.x), x, <<>>)}

\* Wooder for TaggedSequenceTran (lines 313-320): the tag leaf, then the elements
WoodifyTaggedSeq(tag, sub, x) ==
    {Branch(ks) : ks \in WoodifySeqInto(sub, x, <<Leaf(tag)>>)}

\* the Wooder implementations of the strategies
WoodifySet(S, x) ==
    CASE S.k = "Default" -> WoodifyDefault(S.T, x)
      [] S.k = "SequenceTran" -> {Branch(ks) : ks \in WoodifySeqInto(S.sub, x, <<>>)}
      [] S.k = "TaggedSequenceTran" -> WoodifyTaggedSeq(S.tag, S.sub, x)
      [] S.k = "PairBi" ->
            {Branch(<<kw, vw>>) : kw \in WoodifySet(S.kt, x[1]), vw \in WoodifySet(S.vt, x[2])}
      [] S.k = "HashMapBi" -> {Branch(ks) : ks \in WoodifyMap(S.kt, S.vt, x, <<>>)}
      [] S.k = "TaggedHashMapBi" ->
            {Branch(ks) : ks \in WoodifyMap(S.kt, S.vt, x, <<Leaf(S.tag)>>)}

----------------------------------------------------------------------------
(* Decoding *)

RECURSIVE Dewoodify(_, _)
RECURSIVE SeqIntoLoop(_, _, _, _, _)
RECURSIVE MapLoop(_, _, _, _, _, _)
RECURSIVE DewoodifyPair(_, _, _)

RECURSIVE SeqIntoLoopLast(_, _, _, _, _)
\* SeqIntoLoop going on after an error and returning the last one
SeqIntoLoopLast(inner, ws, i, out, calls) ==
    IF i > Len(ws) THEN [res |-> Ok(NoVal, calls), output |-> out]
    ELSE LET r == Dewoodify(inner, ws[i])
             rest == SeqIntoLoopLast(inner, ws, i + 1,
                                     IF r.ok THEN Append(out, r.val) ELSE out,
                                     calls \o r.calls)
         IN  IF r.ok \/ ~rest.res.ok THEN rest
             ELSE [res |-> Err(r.err, rest.res.calls), output |-> rest.output]

\* dewoodify_seq_into, lines 263-269, from the i-th wood on: push every decoded
\* value onto the output, return the first error
SeqIntoLoop(inner, ws, i, out, calls) ==
    IF i > Len(ws) THEN [res |-> Ok(NoVal, calls), output |-> out]
    ELSE LET r == Dewoodify(inner, ws[i]) IN
         IF r.ok
         THEN SeqIntoLoop(inner, ws, i + 1, Append(out, r.val), calls \o r.calls)
         ELSE [res |-> Err(r.err, calls \o r.calls), output |-> out]

\* dewoodify_seq_into (lines 259-276)
DewoodifySeqInto(inner, ws, out) == SeqIntoLoop(inner, ws, 1, out, <<>>)

\* EnsureTag handing back all the woods, the tag leaf among them
EnsureTagKeep(w, tag) ==
    LET i == Contents(w) IN
    IF Len(i) > 0
    THEN LET name_wood == i[1] IN
         IF name_wood.leaf
         THEN IF name_wood.txt = tag
              THEN [ok |-> TRUE, rest |-> i, err |-> NoErr]
              ELSE [ok |-> FALSE, rest |-> <<>>,
                    err |-> NewWithCause(name_wood,
                              "expected \"{}\" here, but instead there was \"{}\"",
                              <<tag, name_wood.txt>>, NoCause)]
         ELSE [ok |-> FALSE, rest |-> <<>>,
               err |-> NewWithCause(name_wood,
                         "expected \"{}\" here, but instead there was a branch wood",
                         <<tag>>, NoCause)]
    ELSE [ok |-> FALSE, rest |-> <<>>,
          err |-> NewWithCause(w, "expected \"{}\" at beginning, but the wood was empty",
                               <<tag>>, NoCause)]

\* ensure_tag (lines 322-341): the woods after the first, when the first is a
\* leaf holding the tag
EnsureTag(w, tag) ==
    LET i == Contents(w) IN
    IF Len(i) > 0
    THEN LET name_wood == i[1] IN
         IF name_wood.leaf
         THEN IF name_wood.txt = tag
              THEN [ok |-> TRUE, rest |-> SubSeq(i, 2, Len(i)), err |-> NoErr]
              ELSE [ok |-> FALSE, rest |-> <<>>,
                    err |-> NewWithCause(name_wood,
                              "expected \"{}\" here, but instead there was \"{}\"",
                              <<tag, name_wood.txt>>, NoCause)]
         ELSE [ok |-> FALSE, rest |-> <<>>,
               err |-> NewWithCause(name_wood,
                         "expected \"{}\" here, but instead there was a branch wood",
                         <<tag>>, NoCause)]
    ELSE [ok |-> FALSE, rest |-> <<>>,
          err |-> NewWithCause(w, "expected \"{}\" at beginning, but the wood was empty",
                               <<tag>>, NoCause)]

\* DewoodifyPair decoding the first two elements of any branch that has them
DewoodifyPairLoose(kt, vt, w) ==
    IF ~w.leaf
    THEN IF Len(w.kids) >= 2
         THEN LET kr == Dewoodify(kt, w.kids[1]) IN
              IF ~kr.ok THEN Err(kr.err, kr.calls)
              ELSE LET vr == Dewoodify(vt, w.kids[2]) IN
                   IF ~vr.ok THEN Err(vr.err, kr.calls \o vr.calls)
                   ELSE Ok(<<kr.val, vr.val>>, kr.calls \o vr.calls)
         ELSE Err(NewWithCause(w, "expected a pair, two elements, but the branch here has {}",
                               <<ToStringInt(Len(w.kids))>>, NoCause), <<>>)
    ELSE Err(NewWithCause(w, "expected a pair, but the wood here is an leaf", <<>>, NoCause),
             <<>>)

\* dewoodify_pair (lines 354-373)
DewoodifyPair(kt, vt, w) ==
    IF ~w.leaf
    THEN IF Len(w.kids) = 2
         THEN LET kr == Dewoodify(kt, w.kids[1]) IN
              IF ~kr.ok THEN Err(kr.err, kr.calls)
              ELSE LET vr == Dewoodify(vt, w.kids[2]) IN
                   IF ~vr.ok THEN Err(vr.err, kr.calls \o vr.calls)
                   ELSE Ok(<<kr.val, vr.val>>, kr.calls \o vr.calls)
         ELSE Err(NewWithCause(w, "expected a pair, two elements, but the branch here has {}",
                               <<ToStringInt(Len(w.kids))>>, NoCause), <<>>)
    ELSE Err(NewWithCause(w, "expected a pair, but the wood here is an leaf", <<>>, NoCause),
             <<>>)

\* dewoodify_map, lines 410-413, from the i-th wood on
MapLoop(ktr, vtr, ws, i, o, calls) ==
    IF i > Len(ws) THEN [res |-> Ok(NoVal, calls), output |-> o]
    ELSE LET r == DewoodifyPair(ktr, vtr, ws[i]) IN
         IF r.ok
         THEN MapLoop(ktr, vtr, ws, i + 1, Append(o, r.val), calls \o r.calls)
         ELSE [res |-> Err(r.err, calls \o r.calls), output |-> o]

\* dewoodify_map (lines 404-414)
DewoodifyMap(ktr, vtr, ws, o) == MapLoop(ktr, vtr, ws, 1, o, <<>>)

RECURSIVE FromIter(_)
\* HashMap::from_iter (lines 434, 461, 490): insert the pairs in order, a later
\* pair replacing an earlier one of the same key
FromIter(pairs) ==
    IF Len(pairs) = 0 THEN <<>>
    ELSE LET m == FromIter(SubSeq(pairs, 1, Len(pairs) - 1))
             p == pairs[Len(pairs)]
         IN  [key \in (DOMAIN m) \cup {p[1]} |-> IF key = p[1] THEN p[2] ELSE m[key]]

\* the body of the sequence decoders (lines 287-291, 304-308, 344-349): decode
\* the woods ws into a fresh vector
DecodeVec(inner, ws) ==
    LET r == DewoodifySeqInto(inner, ws, <<>>) IN
    IF r.res.ok THEN Ok(r.output, r.res.calls) ELSE Err(r.res.err, r.res.calls)

\* the body of the map decoders (lines 431-435, 458-462, 486-491): decode the
\* woods ws into a fresh vector of pairs and collect it
DecodeHashMap(ktr, vtr, ws) ==
    LET r == DewoodifyMap(ktr, vtr, ws, <<>>) IN
    IF r.res.ok THEN Ok(FromIter(r.output), r.res.calls) ELSE Err(r.res.err, r.res.calls)

\* the Dewoodable implementations (lines 147-179, 190-197, 286-292, 426-436)
DewoodifyDefault(T, w) ==
    CASE T.t = "i32" -> DewoodifyInt(w)
      [] T.t = "bool" -> DewoodifyBool(w)
      [] T.t = "String" -> DewoodifyString(w)
      [] T.t = "Vec" -> DecodeVec(Default(T.e), Contents(w))
      [] T.t = "HashMap" -> DecodeHashMap(Default(T.k), Default(T.x), Contents(w))

\* the Dewooder implementations of the strategies
Dewoodify(S, w) ==
    CASE S.k = "Default" -> DewoodifyDefault(S.T, w)
      [] S.k = "SequenceTran" -> DecodeVec(S.sub, Contents(w))
      [] S.k = "TaggedSequenceTran" ->
            LET it == EnsureTag(w, S.tag) IN
            IF it.ok THEN DecodeVec(S.sub, it.rest) ELSE Err(it.err, <<>>)
      [] S.k = "PairBi" -> DewoodifyPair(S.kt, S.vt, w)
      [] S.k = "HashMapBi" -> DecodeHashMap(S.kt, S.vt, Contents(w))
      [] S.k = "TaggedHashMapBi" ->
            LET it == EnsureTag(w, S.tag) IN
            IF it.ok THEN DecodeHashMap(S.kt, S.vt, it.rest) ELSE Err(it.err, <<>>)

----------------------------------------------------------------------------
(* FieldScanning *)

\* FieldScanning::new
FieldScanningNew(w) == [v |-> w, li |-> WoodTail(w), eye |-> 0]

\* NextEye without the wrap: the eye stays on the last child
NextEyeNoWrap(e, len) == IF e + 1 >= len THEN e ELSE e + 1

\* seek, lines 95-96: advance the eye and wrap it to 0 past the end
NextEye(e, len) == IF e + 1 >= len THEN 0 ELSE e + 1

\* SeekMatched taking the first element of c's contents instead of its tail
SeekMatchedHead(c) ==
    IF Len(Contents(c)) > 0
    THEN Ok(Contents(c)[1], <<>>)
    ELSE Err(NewError(c, "expected a subwood, but the wood has no tail", <<>>), <<>>)

\* seek, lines 89-93: what a matched child c yields
SeekMatched(c) ==
    IF Len(WoodTail(c)) > 0
    THEN Ok(WoodTail(c)[1], <<>>)
    ELSE Err(NewError(c, "expected a subwood, but the wood has no tail", <<>>), <<>>)

RECURSIVE SeekLoopAdvance(_, _, _, _, _, _)
\* SeekLoop moving the eye past the child it matched
SeekLoopAdvance(w, l, e, key, n, examined) ==
    IF n = 0
    THEN [eye |-> e, examined |-> examined, matched |-> FALSE,
          res |-> Err(NewError(w, "could not find key \"{}\"", <<key>>), <<>>)]
    ELSE LET c == l[e + 1] IN
         IF InitialStr(c) = key
         THEN [eye |-> IF e + 1 >= Len(l) THEN 0 ELSE e + 1,
               examined |-> Append(examined, e), matched |-> TRUE,
               res |-> IF Len(WoodTail(c)) > 0
                       THEN Ok(WoodTail(c)[1], <<>>)
                       ELSE Err(NewError(c, "expected a subwood, but the wood has no tail", <<>>), <<>>)]
         ELSE SeekLoopAdvance(w, l, IF e + 1 >= Len(l) THEN 0 ELSE e + 1, key, n - 1,
                              Append(examined, e))

RECURSIVE SeekLoop(_, _, _, _, _, _)
\* seek, lines 85-98: n iterations left; examined lists the indices compared
SeekLoop(w, l, e, key, n, examined) ==
    IF n = 0
    THEN [eye |-> e, examined |-> examined, matched |-> FALSE,
          res |-> Err(NewError(w, "could not find key \"{}\"", <<key>>), <<>>)]
    ELSE LET c == l[e + 1] IN
         IF InitialStr(c) = key
         THEN [eye |-> e, examined |-> Append(examined, e), matched |-> TRUE,
               res |-> SeekMatched(c)]
         ELSE SeekLoop(w, l, NextEye(e, Len(l)), key, n - 1, Append(examined, e))

\* FieldScanning::seek
SeekRun(w, l, e, key) == SeekLoop(w, l, e, key, Len(l), <<>>)

----------------------------------------------------------------------------
(* Inputs of the cursor specification *)

KeyA == <<"a">>
KeyB == <<"b">>
KeyZ == <<"z">>
\* the keys sought; no wood of CursorWoods holds KeyZ
Keys == {KeyA, KeyB, KeyZ}

\* the shapes of a child: a bare key, a key alone in a branch, a key with its
\* value, and the empty branch
ChildShapes ==
    {Branch(<<>>)}
    \cup {Leaf(k) : k \in {KeyA, KeyB}}
    \cup {Branch(<<Leaf(k)>>) : k \in {KeyA, KeyB}}
    \cup {Branch(<<Leaf(k), Leaf(<<"1">>)>>) : k \in {KeyA, KeyB}}

\* the woods a cursor is built over: a leaf, and every branch of one to
\* MaxKids children
CursorWoods ==
    {Parsed(Leaf(KeyA))}
    \cup {Parsed(Branch(ks)) : ks \in SeqsUpTo(ChildShapes, MaxKids) \ {<<>>}}

IdleCodec ==
    /\ strat = "none"
    /\ val = NoVal
    /\ wood = Leaf(<<>>)
    /\ output = <<>>
    /\ op = "none"
    /\ res = Ok(NoVal, <<>>)

InitCursor ==
    /\ \E w \in CursorWoods :
          LET fs == FieldScanningNew(w) IN
          /\ v = fs.v
          /\ li = fs.li
          /\ eye = fs.eye
    /\ hist = <<>>
    /\ IdleCodec

\* one call of seek(key) on the cursor
Seek(key) ==
    /\ Len(hist) < MaxSeeks
    /\ LET r == SeekRun(v, li, eye, key) IN
       /\ eye' = r.eye
       /\ hist' = Append(hist, [key |-> key, before |-> eye, after |-> r.eye,
                                examined |-> r.examined, matched |-> r.matched,
                                res |-> r.res])
    /\ UNCHANGED <<v, li, strat, val, wood, output, op, res>>

NextCursor == \E key \in Keys : Seek(key)

SpecCursor == InitCursor /\ [][NextCursor]_vars

----------------------------------------------------------------------------
(* Properties of the cursor *)

\* the children of the wood the cursor was built over
Children == IF v.leaf THEN <<>> ELSE v.kids

\* the call h ended with the key-not-found error
KeyNotFound(h) == ~h.res.ok /\ h.res.err.msg = "could not find key \"{}\""

\* the call h ended with the error of a matched child that holds no value
NoValueAfterKey(h) ==
    ~h.res.ok /\ h.res.err.msg = "expected a subwood, but the wood has no tail"

\* the 0-based indices of li whose child has leading text key
Matching(key) == {j \in 0..(Len(li) - 1) : InitialStr(li[j + 1]) = key}

\* C3 as stated: seek(key) never reports "could not find key" when some child
\* of the list the cursor was built over has leading text key.
C3_AnyChildFound ==
    \A i \in 1..Len(hist) :
        (\E j \in 1..Len(Children) : InitialStr(Children[j]) = hist[i].key)
            => ~KeyNotFound(hist[i])

\* C3 amended: after any earlier seeks, seek(key) never reports "could not find
\* key" when some child of the list other than its first has leading text key;
\* it stops on the first such child in cyclic order from the eye.
C3_TailChildFound ==
    \A i \in 1..Len(hist) :
        (\E j \in 2..Len(Children) : InitialStr(Children[j]) = hist[i].key)
            => /\ ~KeyNotFound(hist[i])
               /\ hist[i].matched
               /\ InitialStr(Children[hist[i].after + 2]) = hist[i].key

\* a later seek found, by wrapping round, a child lying before the eye
C3_Witness ==
    \E i \in 2..Len(hist) :
        /\ hist[i].matched
        /\ hist[i].after < hist[i].before
        /\ ~hist[i - 1].matched

C5_FollowingSibling ==
    \A i \in 1..Len(hist) :
        LET h == hist[i] IN
        h.matched =>
            IF h.after + 2 <= Len(li)
            THEN h.res.ok /\ h.res.val = li[h.after + 2]
            ELSE NoValueAfterKey(h)

\* C5 amended: a matched child yields its own second element (the element
\* after its leading one), and the no-value error, positioned at the matched
\* child, when it is a leaf or a list of a single element.
C5_SecondElement ==
    \A i \in 1..Len(hist) :
        LET h == hist[i]
            c == li[h.after + 1]
        IN  h.matched =>
            IF ~c.leaf /\ Len(c.kids) >= 2
            THEN h.res.ok /\ h.res.val = c.kids[2]
            ELSE /\ NoValueAfterKey(h)
                 /\ h.res.err.line = c.line /\ h.res.err.column = c.column

\* a matched pair gave its value although it is the last child, and a matched
\* bare key gave the error although a sibling follows it
C5_Witness ==
    /\ \E i \in 1..Len(hist) :
           hist[i].matched /\ hist[i].res.ok /\ hist[i].after + 1 = Len(li)
    /\ \E i \in 1..Len(hist) :
           hist[i].matched /\ NoValueAfterKey(hist[i]) /\ hist[i].after + 1 < Len(li)

\* the first n calls sought keys in the order their children appear: each key
\* has a child at or after the child matched by the call before it
InOrder(n) ==
    \A i \in 1..n :
        \E j \in Matching(hist[i].key) :
            j >= (IF i = 1 THEN 0 ELSE hist[i - 1].after)

----------------------------------------------------------------------------
(* Round trips: woodify a value, then dewoodify the wood, with one strategy *)

T_ob == <<"o", "b">>
T_a == <<"a">>

RECURSIVE ValuesOf(_, _)
\* values of type T; the elements of containers are drawn from narrow sets
ValuesOf(T, top) ==
    CASE T.t = "i32" ->
            IF top THEN {MinI32, -120, -1, 0, 7, 10, 2019, MaxI32} ELSE {-1, 10}
      [] T.t = "bool" -> {TRUE, FALSE}
      [] T.t = "String" ->
            IF top THEN {<<>>, T_a, T_ob, T_true, <<"4", "2">>, <<"a", " ", "b">>}
            ELSE {T_a, T_ob}
      [] T.t = "Vec" -> SeqsUpTo(ValuesOf(T.e, FALSE), MaxLen)
      [] T.t = "Pair" -> ValuesOf(T.k, FALSE) \X ValuesOf(T.x, FALSE)
      [] T.t = "HashMap" ->
            UNION {[D -> ValuesOf(T.x, FALSE)] : D \in SUBSET ValuesOf(T.k, FALSE)}

\* the strategies tried, each with the type of the values it translates
RoundTripCases == <<
    [S |-> Default(TInt), T |-> TInt],
    [S |-> Default(TBool), T |-> TBool],
    [S |-> Default(TString), T |-> TString],
    [S |-> Default(TVec(TInt)), T |-> TVec(TInt)],
    [S |-> Default(TVec(TVec(TString))), T |-> TVec(TVec(TString))],
    [S |-> Default(THashMap(TString, TString)), T |-> THashMap(TString, TString)],
    [S |-> Default(THashMap(TInt, TVec(TBool))), T |-> THashMap(TInt, TVec(TBool))],
    [S |-> Default(TVec(THashMap(TString, TInt))), T |-> TVec(THashMap(TString, TInt))],
    [S |-> SequenceTran(Default(TBool)), T |-> TVec(TBool)],
    [S |-> SequenceTran(SequenceTran(Default(TString))), T |-> TVec(TVec(TString))],
    [S |-> SequenceTran(PairBi(Default(TString), Default(TInt))),
     T |-> TVec(TPair(TString, TInt))],
    [S |-> TaggedSequenceTran(T_ob, Default(TString)), T |-> TVec(TString)],
    [S |-> TaggedSequenceTran(T_ob, TaggedSequenceTran(T_a, Default(TInt))),
     T |-> TVec(TVec(TInt))],
    [S |-> PairBi(Default(TString), Default(TInt)), T |-> TPair(TString, TInt)],
    [S |-> PairBi(Default(TInt), SequenceTran(Default(TBool))),
     T |-> TPair(TInt, TVec(TBool))],
    [S |-> HashMapBi(Default(TInt), Default(TString)), T |-> THashMap(TInt, TString)],
    [S |-> HashMapBi(Default(TString), PairBi(Default(TBool), Default(TInt))),
     T |-> THashMap(TString, TPair(TBool, TInt))],
    [S |-> TaggedHashMapBi(T_ob, Default(TString), Default(TString)),
     T |-> THashMap(TString, TString)],
    [S |-> TaggedHashMapBi(T_ob, Default(TString), TaggedSequenceTran(T_ob, Default(TString))),
     T |-> THashMap(TString, TVec(TString))] >>

IdleCursor ==
    /\ v = Leaf(<<>>)
    /\ li = <<>>
    /\ eye = 0
    /\ hist = <<>>

InitRoundTrip ==
    /\ IdleCursor
    /\ \E i \in 1..Len(RoundTripCases) :
          /\ strat = RoundTripCases[i].S
          /\ val \in ValuesOf(RoundTripCases[i].T, TRUE)
    /\ wood = Leaf(<<>>)
    /\ output = <<>>
    /\ op = "none"
    /\ res = Ok(NoVal, <<>>)

\* S.woodify(&val)
Encode ==
    /\ op = "none"
    /\ wood' \in WoodifySet(strat, val)
    /\ op' = "woodify"
    /\ UNCHANGED <<v, li, eye, hist, strat, val, output, res>>

\* S.dewoodify(&wood)
Decode ==
    /\ op = "woodify"
    /\ res' = Dewoodify(strat, wood)
    /\ op' = "dewoodify"
    /\ UNCHANGED <<v, li, eye, hist, strat, val, wood, output>>

NextRoundTrip == Encode \/ Decode

SpecRoundTrip == InitRoundTrip /\ [][NextRoundTrip]_vars

\* C1: for every value v and every strategy S applied to v's type,
\* S.dewoodify(S.woodify(v)) is Ok(v') with v' equal to v, never an error.
C1_RoundTrip ==
    op = "dewoodify" => res.ok /\ res.val = val

\* a map of two entries whose values are tagged vectors has made the round
\* trip under TaggedHashMapBi
C1_Witness ==
    /\ op = "dewoodify"
    /\ res.ok
    /\ strat.k = "TaggedHashMapBi"
    /\ strat.vt.k = "TaggedSequenceTran"
    /\ Cardinality(DOMAIN val) = 2
    /\ \E key \in DOMAIN val : Len(val[key]) = 2

----------------------------------------------------------------------------
(* Decoding parsed woods *)

T_True == <<"T", "r", "u", "e">>
T_maybe == <<"m", "a", "y", "b", "e">>

\* the shapes of the children of a wood handed to a decoder
KidShapes ==
    {Leaf(T_true), Leaf(T_maybe), Leaf(T_ob),
     Branch(<<>>),
     Branch(<<Leaf(T_ob), Leaf(T_true)>>),
     Branch(<<Leaf(T_ob), Leaf(T_maybe)>>),
     Branch(<<Branch(<<Leaf(T_yes)>>)>>)}

\* the woods handed to the decoders: the leaves of interest and every branch
\* of at most MaxArity children
DecodeWoods ==
    {Parsed(Leaf(t)) : t \in {T_true, T_top, T_yes, T_false, T_bot, T_no,
                              T_True, T_maybe, T_ob, <<>>}}
    \cup {Parsed(Branch(ks)) : ks \in SeqsUpTo(KidShapes, MaxArity)}

\* the strategies the woods are decoded with
DecodeStrategies == <<
    Default(TBool),
    PairBi(Default(TString), Default(TBool)),
    SequenceTran(Default(TBool)),
    Default(TVec(TBool)),
    TaggedSequenceTran(T_ob, Default(TBool)),
    HashMapBi(Default(TString), Default(TBool)),
    Default(THashMap(TString, TBool)),
    TaggedHashMapBi(T_ob, Default(TString), Default(TBool)) >>

InitDecode ==
    /\ IdleCursor
    /\ strat = Default(TBool)
    /\ val = NoVal
    /\ wood \in DecodeWoods
    /\ output \in {<<>>, <<FALSE>>}
    /\ op = "none"
    /\ res = Ok(NoVal, <<>>)

\* S.dewoodify(&wood) for one of the strategies
Apply(S) ==
    /\ op = "none"
    /\ strat' = S
    /\ res' = Dewoodify(S, wood)
    /\ op' = "dewoodify"
    /\ UNCHANGED <<v, li, eye, hist, val, wood, output>>

\* ensure_tag(&wood, "ob"); the iterator it returns is kept as the result's value
EnsureTagCall ==
    /\ op = "none"
    /\ LET it == EnsureTag(wood, T_ob) IN
       res' = IF it.ok THEN Ok(it.rest, <<>>) ELSE Err(it.err, <<>>)
    /\ op' = "ensure_tag"
    /\ UNCHANGED <<v, li, eye, hist, strat, val, wood, output>>

\* dewoodify_seq_into(&DefaultBiwooder, wood.contents(), &mut output) with
\* T = bool, on the caller's output vector
SeqIntoCall ==
    /\ op = "none"
    /\ LET r == DewoodifySeqInto(Default(TBool), Contents(wood), output) IN
       /\ res' = r.res
       /\ output' = r.output
    /\ op' = "dewoodify_seq_into"
    /\ UNCHANGED <<v, li, eye, hist, strat, val, wood>>

NextDecode ==
    \/ \E i \in 1..Len(DecodeStrategies) : Apply(DecodeStrategies[i])
    \/ EnsureTagCall
    \/ SeqIntoCall

SpecDecode == InitDecode /\ [][NextDecode]_vars

----------------------------------------------------------------------------
(* Properties of the decoders *)

\* the position of a wood, as an error or a call log carries it
Pos(w) == <<w.line, w.column>>

\* the error e is positioned at the wood w
At(e, w) == e.line = w.line /\ e.column = w.column

RECURSIVE Positions(_)
\* the positions of the nodes of a wood
Positions(w) ==
    {Pos(w)} \cup UNION {Positions(w.kids[i]) : i \in 1..Len(w.kids)}

TrueTexts == {T_true, T_top, T_yes}
FalseTexts == {T_false, T_bot, T_no}

\* what the claims expect of the bool decoder on a leaf
BoolOfLeaf(w) == w.leaf /\ w.txt \in TrueTexts \cup FalseTexts

\* C9 as stated: bool decode returns true iff the node is a leaf holding one
\* of "true", "⊤", "yes", false iff it is a leaf holding one of "false", "⟂",
\* "no", and fails on every other node with "expected a bool here", no cause,
\* positioned at the node.
C9_LeafLiterals ==
    (op = "dewoodify" /\ strat = Default(TBool)) =>
        /\ (res.ok /\ res.val = TRUE) <=> (wood.leaf /\ wood.txt \in TrueTexts)
        /\ (res.ok /\ res.val = FALSE) <=> (wood.leaf /\ wood.txt \in FalseTexts)
        /\ ~BoolOfLeaf(wood) =>
              /\ ~res.ok
              /\ res.err.msg = "expected a bool here"
              /\ res.err.cause = NoCause
              /\ At(res.err, wood)

\* C9 amended: bool decode goes by the node's leading text (a leaf's text; a
\* list's first child's leading text; the empty text of an empty list): true
\* iff it is one of "true", "⊤", "yes", false iff it is one of "false", "⟂",
\* "no", by exact match; every other node fails with "expected a bool here",
\* no cause, positioned at that node.
C9_LeadingTextLiterals ==
    (op = "dewoodify" /\ strat = Default(TBool)) =>
        /\ (res.ok /\ res.val = TRUE) <=> (InitialStr(wood) \in TrueTexts)
        /\ (res.ok /\ res.val = FALSE) <=> (InitialStr(wood) \in FalseTexts)
        /\ InitialStr(wood) \notin TrueTexts \cup FalseTexts =>
              /\ ~res.ok
              /\ res.err.msg = "expected a bool here"
              /\ res.err.cause = NoCause
              /\ At(res.err, wood)

\* the case variant "True" was handed to the bool decoder and refused
C9_Witness ==
    /\ op = "dewoodify" /\ strat = Default(TBool)
    /\ wood.leaf /\ wood.txt = T_True
    /\ ~res.ok

\* C6: pair decode succeeds only on a list of exactly two children, child 0
\* decoded by the key decoder and child 1 by the value decoder; a list of any
\* other arity fails with the arity error naming the child count, positioned
\* at the list; a leaf fails with the expected-a-pair-found-a-leaf error; in
\* neither failure is an inner decoder invoked.
C6_PairArity ==
    (op = "dewoodify" /\ strat.k = "PairBi") =>
        IF wood.leaf
        THEN /\ ~res.ok
             /\ res.err.msg = "expected a pair, but the wood here is an leaf"
             /\ At(res.err, wood)
             /\ res.calls = <<>>
        ELSE IF Len(wood.kids) # 2
        THEN /\ ~res.ok
             /\ res.err.msg = "expected a pair, two elements, but the branch here has {}"
             /\ res.err.args = << <<DigitChar(Len(wood.kids))>> >>
             /\ At(res.err, wood)
             /\ res.calls = <<>>
        ELSE LET kr == DewoodifyString(wood.kids[1])
                 vr == DewoodifyBool(wood.kids[2])
             IN  /\ res.ok <=> (kr.ok /\ vr.ok)
                 /\ res.ok => /\ res.val = <<wood.kids[1].txt, vr.val>>
                              /\ res.calls = <<Pos(wood.kids[1]), Pos(wood.kids[2])>>
                 /\ ~kr.ok => res.err = kr.err /\ res.calls = <<Pos(wood.kids[1])>>
                 /\ (kr.ok /\ ~vr.ok) => res.err = vr.err

\* a list of three children was handed to the pair decoder and refused
C6_Witness ==
    /\ op = "dewoodify" /\ strat.k = "PairBi"
    /\ ~wood.leaf /\ Len(wood.kids) = 3
    /\ wood.kids[1].leaf /\ BoolOfLeaf(wood.kids[2])
    /\ ~res.ok

\* the woods a tag-checked decode goes on with once the tag has matched
Payload == SubSeq(wood.kids, 2, Len(wood.kids))

\* the first child of the list is a leaf holding the tag
TagLeads == Len(wood.kids) > 0 /\ wood.kids[1].leaf /\ wood.kids[1].txt = T_ob

\* the error ensure_tag owes a list whose first child is no leaf holding the tag
TagError(e) ==
    IF Len(wood.kids) = 0
    THEN /\ e.msg = "expected \"{}\" at beginning, but the wood was empty"
         /\ e.args = <<T_ob>>
         /\ At(e, wood)
    ELSE IF ~wood.kids[1].leaf
    THEN /\ e.msg = "expected \"{}\" here, but instead there was a branch wood"
         /\ e.args = <<T_ob>>
         /\ At(e, wood.kids[1])
    ELSE /\ e.msg = "expected \"{}\" here, but instead there was \"{}\""
         /\ e.args = <<T_ob, wood.kids[1].txt>>
         /\ At(e, wood.kids[1])

IsSeqStrategy ==
    strat.k \in {"SequenceTran", "TaggedSequenceTran"}
        \/ (strat.k = "Default" /\ strat.T.t = "Vec")
IsMapStrategy ==
    strat.k \in {"HashMapBi", "TaggedHashMapBi"}
        \/ (strat.k = "Default" /\ strat.T.t = "HashMap")
IsTagged == strat.k \in {"TaggedSequenceTran", "TaggedHashMapBi"}
Elements == IF IsTagged THEN Payload ELSE Contents(wood)

\* what the inner decoder of the strategy at hand makes of one element
Inner(w) ==
    IF IsSeqStrategy THEN DewoodifyBool(w)
    ELSE DewoodifyPair(Default(TString), Default(TBool), w)

\* C7: the sequence decoders, and the map decoders over their pairs, decode
\* the children in order; when some child fails the result is the error of
\* the lowest-index failing child, no child after it is decoded and no value
\* is returned; when none fails a sequence decodes to the values in child order.
C7_FailFast ==
    (op = "dewoodify" /\ (IsSeqStrategy \/ IsMapStrategy) /\ (IsTagged => TagLeads)
        /\ (IsTagged => ~wood.leaf)) =>
        LET failing == {i \in 1..Len(Elements) : ~Inner(Elements[i]).ok} IN
        IF failing = {}
        THEN /\ res.ok
             /\ IsSeqStrategy =>
                    /\ Len(res.val) = Len(Elements)
                    /\ \A i \in 1..Len(Elements) : res.val[i] = Inner(Elements[i]).val
        ELSE LET first == CHOOSE i \in failing : \A j \in failing : i <= j IN
             /\ ~res.ok
             /\ res.val = NoVal
             /\ res.err = Inner(Elements[first]).err
             /\ IsSeqStrategy => At(res.err, Elements[first])
             /\ <<res.err.line, res.err.column>> \in Positions(Elements[first])
             /\ \A j \in (first + 1)..Len(Elements) :
                    \A c \in 1..Len(res.calls) : res.calls[c] \notin Positions(Elements[j])
             /\ \A j \in 1..(first - 1) :
                    \E c \in 1..Len(res.calls) : res.calls[c] \in Positions(Elements[j])

\* a sequence whose second and third children both fail was decoded, after a
\* first child that decodes
C7_Witness ==
    /\ op = "dewoodify" /\ strat.k = "SequenceTran"
    /\ ~wood.leaf /\ Len(wood.kids) = 3
    /\ DewoodifyBool(wood.kids[1]).ok
    /\ ~DewoodifyBool(wood.kids[2]).ok
    /\ ~DewoodifyBool(wood.kids[3]).ok
    /\ ~res.ok

\* C8: when a decode operation, dewoodify_seq_into among them, returns an
\* error, the caller's output vector is as it was before the call.
C8_OutputUntouchedOnError ==
    [][(op' = "dewoodify_seq_into" /\ ~res'.ok) => output' = output]_vars

====
